---------------------------- MODULE Spec2Model ----------------------------
(***************************************************************************)
(* A model of the streaming response decoder of synapp-ui:                 *)
(* ChatApiFactory(...).sendMessage in services/chat-api/ChatApi.            *)
(*                                                                         *)
(* Text is a sequence of lexical symbols.  Punctuation, white space and    *)
(* the letter "a" are single characters.  The words "response",            *)
(* "thinking", "done", "true", "false" and "null" are one symbol each: the *)
(* scanner and the newline loop treat every letter of a word alike, so a   *)
(* chunk boundary inside a word behaves like one beside it.  "C3" and "A9" *)
(* are the two bytes of the UTF-8 encoding of the character "e'"; "?" is   *)
(* the replacement character U+FFFD.  A word may also come as two          *)
(* fragments ("respon" and "se"); a string is its fragments joined.        *)
(***************************************************************************)
EXTENDS Integers, Sequences, FiniteSets, TLC

LBRACE == "{"
RBRACE == "}"
LBRACK == "["
RBRACK == "]"
QUOTE == "\""
BSLASH == "\\"
COLON == ":"
COMMA == ","
NL == "\n"
SP == " "
LeadByte == "C3"
ContByte == "A9"
EAcute == "e'"
Replacement == "?"

Words == {"response", "thinking", "done", "true", "false", "null"}

(***************************************************************************)
(* String helpers of the JavaScript runtime.                               *)
(***************************************************************************)
IsSpace(c) == c \in {SP, NL}

\* String.prototype.indexOf(c): the first index of c (from 1), 0 when absent
IndexFrom(s, c, i) ==
    IF \E k \in i..Len(s) : s[k] = c
    THEN CHOOSE k \in i..Len(s) : s[k] = c /\ \A j \in i..(k - 1) : s[j] # c
    ELSE 0

IndexOf(s, c) == IndexFrom(s, c, 1)

RECURSIVE TrimStart(_)
TrimStart(s) ==
    IF s # <<>> /\ IsSpace(Head(s)) THEN TrimStart(Tail(s)) ELSE s

RECURSIVE TrimEnd(_)
TrimEnd(s) ==
    IF s # <<>> /\ IsSpace(s[Len(s)]) THEN TrimEnd(SubSeq(s, 1, Len(s) - 1)) ELSE s

\* String.prototype.trim
Trim(s) == TrimEnd(TrimStart(s))

\* String.prototype.split('\n')
RECURSIVE Split(_)
Split(s) ==
    LET k == IndexOf(s, NL)
    IN  IF k = 0 THEN <<s>>
        ELSE <<SubSeq(s, 1, k - 1)>> \o Split(SubSeq(s, k + 1, Len(s)))

\* parts.map(p => p.trim()).filter(Boolean)
RECURSIVE TrimNonEmpty(_)
TrimNonEmpty(parts) ==
    IF parts = <<>> THEN <<>>
    ELSE LET p == Trim(Head(parts))
         IN  (IF p = <<>> THEN <<>> ELSE <<p>>) \o TrimNonEmpty(Tail(parts))

(***************************************************************************)
(* JSON.parse and JSON.stringify on the model's alphabet.  A parsed value  *)
(* is a record [k, s, b, items]: k is its type, s the content of a string, *)
(* b a boolean's value, items the elements of an array or the members      *)
(* <<key, value>> of an object in insertion order.                         *)
(***************************************************************************)
\* the fragments of words that adjoin in a string are one word
Joined(a, b) ==
    IF a = "respon" /\ b = "se" THEN <<"response">>
    ELSE IF a = "Hel" /\ b = "lo" THEN <<"Hello">>
    ELSE <<>>

RECURSIVE Join(_)
Join(x) ==
    IF Len(x) < 2 THEN x
    ELSE IF Joined(x[1], x[2]) # <<>> THEN Joined(x[1], x[2]) \o Join(SubSeq(x, 3, Len(x)))
    ELSE <<x[1]>> \o Join(Tail(x))

JNull == [k |-> "null", s |-> <<>>, b |-> FALSE, items |-> <<>>]
JBool(x) == [k |-> "bool", s |-> <<>>, b |-> x, items |-> <<>>]
JStr(x) == [k |-> "str", s |-> Join(x), b |-> FALSE, items |-> <<>>]
JArr(x) == [k |-> "arr", s |-> <<>>, b |-> FALSE, items |-> x]
JObj(x) == [k |-> "obj", s |-> <<>>, b |-> FALSE, items |-> x]

ParseFail == [ok |-> FALSE, pos |-> 0, val |-> JNull]
ParseOk(p, v) == [ok |-> TRUE, pos |-> p, val |-> v]

RECURSIVE SkipWs(_, _)
SkipWs(s, i) == IF i <= Len(s) /\ IsSpace(s[i]) THEN SkipWs(s, i + 1) ELSE i

\* The characters of a string literal from index i (after the opening quote):
\* [ok, pos (after the closing quote), val (the content)].  A raw newline is a
\* control character and not allowed; the escapes of the alphabet are \" and \\.
RECURSIVE ParseChars(_, _, _)
ParseChars(s, i, acc) ==
    IF i > Len(s) THEN ParseFail
    ELSE IF s[i] = QUOTE THEN ParseOk(i + 1, JStr(acc))
    ELSE IF s[i] = NL THEN ParseFail
    ELSE IF s[i] = BSLASH
         THEN IF i + 1 <= Len(s) /\ s[i + 1] \in {QUOTE, BSLASH}
              THEN ParseChars(s, i + 2, Append(acc, s[i + 1]))
              ELSE ParseFail
    ELSE ParseChars(s, i + 1, Append(acc, s[i]))

\* An object keeps one member per key: a repeated key replaces the value and
\* keeps the place of the first occurrence.
RECURSIVE SetMember(_, _, _)
SetMember(mem, key, val) ==
    IF mem = <<>> THEN << <<key, val>> >>
    ELSE IF Head(mem)[1] = key THEN << <<key, val>> >> \o Tail(mem)
    ELSE <<Head(mem)>> \o SetMember(Tail(mem), key, val)

RECURSIVE ParseValue(_, _)
RECURSIVE ParseElements(_, _, _)
RECURSIVE ParseMembers(_, _, _)

\* after "[": the empty array, or its elements
ParseArray(s, j) ==
    IF j <= Len(s) /\ s[j] = RBRACK THEN ParseOk(j + 1, JArr(<<>>))
    ELSE ParseElements(s, j, <<>>)

\* after "{": the empty object, or its members
ParseObject(s, j) ==
    IF j <= Len(s) /\ s[j] = RBRACE THEN ParseOk(j + 1, JObj(<<>>))
    ELSE ParseMembers(s, j, <<>>)

\* a value that starts at index i
ParseAt(s, i) ==
    IF i > Len(s) THEN ParseFail
    ELSE IF s[i] = "true" THEN ParseOk(i + 1, JBool(TRUE))
    ELSE IF s[i] = "false" THEN ParseOk(i + 1, JBool(FALSE))
    ELSE IF s[i] = "null" THEN ParseOk(i + 1, JNull)
    ELSE IF s[i] = QUOTE THEN ParseChars(s, i + 1, <<>>)
    ELSE IF s[i] = LBRACK THEN ParseArray(s, SkipWs(s, i + 1))
    ELSE IF s[i] = LBRACE THEN ParseObject(s, SkipWs(s, i + 1))
    ELSE ParseFail

\* A value from index i, white space before it skipped: [ok, pos, val]
ParseValue(s, i) == ParseAt(s, SkipWs(s, i))

\* after an element val, at index j: "]" or "," and the next element
ElementsNext(s, j, val, acc) ==
    IF j > Len(s) THEN ParseFail
    ELSE IF s[j] = RBRACK THEN ParseOk(j + 1, JArr(Append(acc, val)))
    ELSE IF s[j] = COMMA THEN ParseElements(s, j + 1, Append(acc, val))
    ELSE ParseFail

ElementsAfter(s, v, acc) ==
    IF v.ok THEN ElementsNext(s, SkipWs(s, v.pos), v.val, acc) ELSE ParseFail

\* value (, value)* ]
ParseElements(s, i, acc) == ElementsAfter(s, ParseValue(s, i), acc)

\* after a member, at index j: "}" or "," and the next member
MemberNext(s, j, mem) ==
    IF j > Len(s) THEN ParseFail
    ELSE IF s[j] = RBRACE THEN ParseOk(j + 1, JObj(mem))
    ELSE IF s[j] = COMMA THEN ParseMembers(s, j + 1, mem)
    ELSE ParseFail

MemberAfter(s, key, v, acc) ==
    IF v.ok THEN MemberNext(s, SkipWs(s, v.pos), SetMember(acc, key, v.val))
    ELSE ParseFail

\* after the key, at index c: ":" and the value
MemberValue(s, key, c, acc) ==
    IF c <= Len(s) /\ s[c] = COLON
    THEN MemberAfter(s, key, ParseValue(s, c + 1), acc)
    ELSE ParseFail

MemberColon(s, k, acc) ==
    IF k.ok THEN MemberValue(s, k.val.s, SkipWs(s, k.pos), acc) ELSE ParseFail

MemberKey(s, i, acc) ==
    IF i <= Len(s) /\ s[i] = QUOTE
    THEN MemberColon(s, ParseChars(s, i + 1, <<>>), acc)
    ELSE ParseFail

\* string : value (, string : value)* }
ParseMembers(s, i, acc) == MemberKey(s, SkipWs(s, i), acc)

\* the text must end after the value
ParseWhole(s, v) == IF v.ok /\ SkipWs(s, v.pos) > Len(s) THEN v ELSE ParseFail

\* JSON.parse(s): [ok, val]; ok is FALSE where JSON.parse throws a SyntaxError
JSONParse(s) == ParseWhole(s, ParseValue(s, 1))

RECURSIVE Quoted(_)
Quoted(s) ==
    IF s = <<>> THEN <<>>
    ELSE (IF Head(s) \in {QUOTE, BSLASH} THEN <<BSLASH, Head(s)>> ELSE <<Head(s)>>)
         \o Quoted(Tail(s))

RECURSIVE JSONStringify(_)
RECURSIVE StringifyItems(_)
RECURSIVE StringifyMembers(_)

\* JSON.stringify(v): the compact text of a parsed value
JSONStringify(v) ==
    IF v.k = "null" THEN <<"null">>
    ELSE IF v.k = "bool" THEN (IF v.b THEN <<"true">> ELSE <<"false">>)
    ELSE IF v.k = "str" THEN <<QUOTE>> \o Quoted(v.s) \o <<QUOTE>>
    ELSE IF v.k = "arr" THEN <<LBRACK>> \o StringifyItems(v.items) \o <<RBRACK>>
    ELSE <<LBRACE>> \o StringifyMembers(v.items) \o <<RBRACE>>

StringifyItems(items) ==
    IF items = <<>> THEN <<>>
    ELSE JSONStringify(Head(items))
         \o (IF Len(items) > 1 THEN <<COMMA>> ELSE <<>>)
         \o StringifyItems(Tail(items))

StringifyMembers(mem) ==
    IF mem = <<>> THEN <<>>
    ELSE <<QUOTE>> \o Quoted(Head(mem)[1]) \o <<QUOTE, COLON>>
         \o JSONStringify(Head(mem)[2])
         \o (IF Len(mem) > 1 THEN <<COMMA>> ELSE <<>>)
         \o StringifyMembers(Tail(mem))

\* parsed[key] of an object: [has, val]
RECURSIVE Member(_, _)
Member(mem, key) ==
    IF mem = <<>> THEN [has |-> FALSE, val |-> JNull]
    ELSE IF Head(mem)[1] = key THEN [has |-> TRUE, val |-> Head(mem)[2]]
    ELSE Member(Tail(mem), key)

(***************************************************************************)
(* TextDecoder: decoder.decode(value, {stream: true}) keeps an incomplete  *)
(* multi-byte sequence until the next chunk; res.text() decodes the whole  *)
(* body and ends it.  pend is TRUE while a lead byte waits for its         *)
(* continuation byte.                                                      *)
(***************************************************************************)
\* no character
NoChar == ""

IsDecoded(x) == x # NoChar

\* a lead byte waits in front of the byte at index i
PendingAt(pend, bytes, i) == IF i = 1 THEN pend ELSE bytes[i - 1] = LeadByte

\* what the byte at index i adds to the text: first the replacement of a lead
\* byte that waited in vain, then the byte's own character
DecodeFirst(pend, bytes, i) ==
    IF PendingAt(pend, bytes, i) /\ bytes[i] # ContByte THEN Replacement ELSE NoChar

DecodeSecond(pend, bytes, i) ==
    IF bytes[i] = ContByte
    THEN (IF PendingAt(pend, bytes, i) THEN EAcute ELSE Replacement)
    ELSE IF bytes[i] = LeadByte THEN NoChar
    ELSE bytes[i]

DecodeText(pend, bytes) ==
    SelectSeq([j \in 1..(2 * Len(bytes)) |->
                   IF j % 2 = 1 THEN DecodeFirst(pend, bytes, (j + 1) \div 2)
                   ELSE DecodeSecond(pend, bytes, j \div 2)],
              IsDecoded)

\* a lead byte at the end of the input waits for the next chunk
DecodePending(pend, bytes) ==
    IF bytes = <<>> THEN pend ELSE bytes[Len(bytes)] = LeadByte

\* decoder.decode(value, { stream: true })
DecodeStream(pend, bytes) ==
    [text |-> DecodeText(pend, bytes), pend |-> DecodePending(pend, bytes)]

\* await res.text(): the end of the body ends an incomplete sequence
ResText(bytes) ==
    IF DecodePending(FALSE, bytes)
    THEN Append(DecodeText(FALSE, bytes), Replacement)
    ELSE DecodeText(FALSE, bytes)

(***************************************************************************)
(* MessageEvent and emitJson.  A decode state d is the part of the call's  *)
(* state that emitJson and the loops around it read and write:            *)
(*   buffer, lastEvent  the variables of sendMessage                       *)
(*   delivered          the events passed to callback.onMessage, in order  *)
(*   units              the texts emitJson was called with, in order       *)
(*   thrownAt           the invocations of the callback that threw         *)
(*   plan               the invocations at which the callback throws       *)
(*   thrown             an exception is propagating out of sendMessage     *)
(***************************************************************************)
MessageEvent(r, t, d) == [response |-> r, thinking |-> t, done |-> d]

DefaultEvent == MessageEvent(<<>>, <<>>, TRUE)

\* the event of the catch branch: the raw text
RawEvent(jsonStr) == MessageEvent(jsonStr, <<>>, TRUE)

\* StructuredEvent as a decoder that does not read the fields of the value
StructuredEventM(parsed) == MessageEvent(JSONStringify(parsed), <<>>, TRUE)

\* the event of the try branch, for a parsed value other than null
StructuredEvent(parsed) ==
    LET r == Member(parsed.items, <<"response">>)
        t == Member(parsed.items, <<"thinking">>)
        d == Member(parsed.items, <<"done">>)
        isObj == parsed.k = "obj"
    IN  MessageEvent(
            IF isObj /\ r.has /\ r.val.k = "str" THEN r.val.s ELSE JSONStringify(parsed),
            IF isObj /\ t.has /\ t.val.k = "str" THEN t.val.s ELSE <<>>,
            IF isObj /\ d.has /\ d.val.k = "bool" THEN d.val.b ELSE TRUE)

\* Deliver as a decoder that forgets to record the event
DeliverM(d, ev) ==
    LET n == Len(d.delivered) + 1
    IN  [d EXCEPT !.delivered = Append(@, ev),
                  !.thrownAt = IF n \in d.plan THEN @ \cup {n} ELSE @,
                  !.thrown = n \in d.plan]

\* lastEvent = ev; callback?.onMessage(ev): nothing is invoked without a
\* callback, and the callback throws at the invocations of d.plan
Deliver(d, ev) ==
    LET n == Len(d.delivered) + 1
    IN  IF ~d.callback THEN [d EXCEPT !.lastEvent = ev]
        ELSE [d EXCEPT !.lastEvent = ev,
                       !.delivered = Append(@, ev),
                       !.thrownAt = IF n \in d.plan THEN @ \cup {n} ELSE @,
                       !.thrown = n \in d.plan]

\* EmitCatch as a catch that swallows the failure and emits nothing
EmitCatchM(tried, jsonStr) == [tried EXCEPT !.thrown = FALSE]

\* the catch of emitJson, entered by whatever the try block threw, the
\* callback's exception included
EmitCatch(tried, jsonStr) ==
    IF tried.thrown
    THEN Deliver([tried EXCEPT !.thrown = FALSE], RawEvent(jsonStr))
    ELSE tried

\* EmitTry as a try block whose JSON.parse always throws
EmitTryM(u, p) == [u EXCEPT !.thrown = TRUE]

\* the try of emitJson: JSON.parse throws a SyntaxError, and reading
\* parsed.response of null throws a TypeError
EmitTry(u, p) ==
    IF p.ok /\ p.val.k # "null" THEN Deliver(u, StructuredEvent(p.val))
    ELSE [u EXCEPT !.thrown = TRUE]

\* emitJson
EmitJson(d, jsonStr) ==
    IF d.thrown \/ jsonStr = <<>> THEN d
    ELSE EmitCatch(EmitTry([d EXCEPT !.units = Append(@, jsonStr)], JSONParse(jsonStr)),
                   jsonStr)

\* parts.forEach(emitJson)
RECURSIVE EmitAll(_, _)
EmitAll(d, parts) ==
    IF parts = <<>> THEN d ELSE EmitAll(EmitJson(d, Head(parts)), Tail(parts))

\* NewlineLoop as an if: only the first line is taken in a pass
NewlineLoopM(d) ==
    LET nlIndex == IndexOf(d.buffer, NL)
        line == Trim(SubSeq(d.buffer, 1, nlIndex - 1))
        rest == [d EXCEPT !.buffer = SubSeq(@, nlIndex + 1, Len(@))]
    IN  IF d.thrown \/ nlIndex = 0 THEN d
        ELSE EmitJson(rest, line)

\* while ((nlIndex = buffer.indexOf('\n')) >= 0) { ... }
RECURSIVE NewlineLoop(_)
NewlineLoop(d) ==
    LET nlIndex == IndexOf(d.buffer, NL)
        line == Trim(SubSeq(d.buffer, 1, nlIndex - 1))
        rest == [d EXCEPT !.buffer = SubSeq(@, nlIndex + 1, Len(@))]
    IN  IF d.thrown \/ nlIndex = 0 THEN d
        ELSE NewlineLoop(EmitJson(rest, line))

\* ToggleString as a scanner that does not track string literals
ToggleStringM(inString) == FALSE

\* inString = !inString
ToggleString(inString) == ~inString

\* buffer.slice(start, i + 1): the span of a brace match
ObjStr(buffer, start, i) == SubSeq(buffer, start, i)

\* AfterMatch as a slice that leaves the closing brace of the span in the buffer
AfterMatchM(buffer, i) == SubSeq(buffer, i, Len(buffer))

\* buffer.slice(i + 1): the buffer after a brace match
AfterMatch(buffer, i) == SubSeq(buffer, i + 1, Len(buffer))

\* the scan state
ScanState(braceDepth, inString, escape, start, match) ==
    [braceDepth |-> braceDepth, inString |-> inString, escape |-> escape,
     start |-> start, match |-> match]

\* the body of the for loop for the character ch at index i: the scan state
\* it leaves, and whether it found a brace match (start = 0 stands for the
\* code's start = -1)
ScanChar(ch, i, braceDepth, inString, escape, start) ==
    IF escape THEN ScanState(braceDepth, inString, FALSE, start, FALSE)
    ELSE IF ch = BSLASH THEN ScanState(braceDepth, inString, TRUE, start, FALSE)
    ELSE IF ch = QUOTE
         THEN ScanState(braceDepth, ToggleString(inString), escape, start, FALSE)
    ELSE IF inString THEN ScanState(braceDepth, inString, escape, start, FALSE)
    ELSE IF ch = LBRACE
         THEN ScanState(braceDepth + 1, inString, escape,
                        IF braceDepth = 0 THEN i ELSE start, FALSE)
    ELSE IF ch = RBRACE
         THEN ScanState(braceDepth - 1, inString, escape, start,
                        braceDepth - 1 = 0 /\ start >= 1)
    ELSE ScanState(braceDepth, inString, escape, start, FALSE)

RECURSIVE BraceScan(_, _, _, _, _, _)

\* ScanOn as a scan that slices the buffer at a match and forgets i = -1
ScanOnM(d, i, n) ==
    IF n.match
    THEN BraceScan(EmitJson([d EXCEPT !.buffer = AfterMatch(@, i)],
                            ObjStr(d.buffer, n.start, i)),
                   i + 1, n.braceDepth, n.inString, n.escape, 0)
    ELSE BraceScan(d, i + 1, n.braceDepth, n.inString, n.escape, n.start)

\* after the character at index i: a match is emitted, the buffer sliced and
\* the scan restarted (i = -1; start = -1); otherwise the scan goes on
ScanOn(d, i, n) ==
    IF n.match
    THEN BraceScan(EmitJson([d EXCEPT !.buffer = AfterMatch(@, i)],
                            ObjStr(d.buffer, n.start, i)),
                   1, n.braceDepth, n.inString, n.escape, 0)
    ELSE BraceScan(d, i + 1, n.braceDepth, n.inString, n.escape, n.start)

\* for (let i = 0; i < buffer.length; i++) { ... }: indices count from 1
BraceScan(d, i, braceDepth, inString, escape, start) ==
    IF d.thrown \/ i > Len(d.buffer) THEN d
    ELSE ScanOn(d, i, ScanChar(d.buffer[i], i, braceDepth, inString, escape, start))

\* ReadPass as a pass that scans for braces before it looks for newlines
ReadPassM(d) == NewlineLoop(BraceScan(d, 1, 0, FALSE, FALSE, 0))

\* one pass of the read loop after buffer += ...: newline strategy, then the
\* brace scan of what remains
ReadPass(d) == BraceScan(NewlineLoop(d), 1, 0, FALSE, FALSE, 0)

\* Leftover as leftover handling without the test of an empty leftover
LeftoverM(d) == IF d.thrown THEN d ELSE Deliver(d, RawEvent(Trim(d.buffer)))

\* after the loop: const leftover = buffer.trim(); if (leftover) { ... }
Leftover(d) ==
    LET leftover == Trim(d.buffer)
        parts == TrimNonEmpty(Split(leftover))
    IN  IF d.thrown \/ leftover = <<>> THEN d
        ELSE IF Len(parts) > 1 THEN EmitAll(d, parts)
        ELSE EmitJson(d, leftover)

\* the event of the no-body path's try branch
WholeBodyEvent(parsed) ==
    MessageEvent(IF parsed.k = "str" THEN parsed.s ELSE JSONStringify(parsed),
                 <<>>, TRUE)

\* the try of the no-body path
NoBodyTry(u, p) ==
    IF p.ok THEN Deliver(u, WholeBodyEvent(p.val)) ELSE [u EXCEPT !.thrown = TRUE]

\* if (!res.body) { ... }: the path returns the event it passed to the
\* callback last, kept here in lastEvent
NoBodyPath(d, txt) ==
    EmitCatch(NoBodyTry([d EXCEPT !.units = Append(@, txt)], JSONParse(txt)), txt)

(***************************************************************************)
(* The bodies a response may carry: up to MaxPieces pieces back to back.   *)
(***************************************************************************)
MaxPieces == 2
MaxLines == 2
MaxThrows == 1

\* {"response":"a"}
ObjPlain == <<LBRACE, QUOTE, "response", QUOTE, COLON, QUOTE, "a", QUOTE, RBRACE>>
\* {"response":"{\"","done":false}
ObjBrace == <<LBRACE, QUOTE, "response", QUOTE, COLON, QUOTE, LBRACE, BSLASH, QUOTE,
              QUOTE, COMMA, QUOTE, "done", QUOTE, COLON, "false", RBRACE>>
\* {"thinking":"}"}
ObjThink == <<LBRACE, QUOTE, "thinking", QUOTE, COLON, QUOTE, RBRACE, QUOTE, RBRACE>>
\* {"a":{}}
ObjNested == <<LBRACE, QUOTE, "a", QUOTE, COLON, LBRACE, RBRACE, RBRACE>>
\* {"response":""}
ObjEmpty == <<LBRACE, QUOTE, "response", QUOTE, COLON, QUOTE, QUOTE, RBRACE>>
\* an object printed on two lines
ObjLines == <<LBRACE, NL, QUOTE, "response", QUOTE, COLON, QUOTE, "a", QUOTE, RBRACE>>

\* top-level objects in compact form, and all of them
CompactObjects == {ObjPlain, ObjBrace, ObjThink, ObjNested, ObjEmpty}
Objects == CompactObjects \cup {ObjLines}

\* JSON values of the other types: "a", null, [{}]
Scalars == {<<QUOTE, "a", QUOTE>>, <<"null">>, <<LBRACK, LBRACE, RBRACE, RBRACK>>}

\* text that is no JSON (the first is the two bytes of one character, the
\* second a line of it, the fifth a stray closing brace before an opening
\* one), and a line break
Junk == {<<LeadByte, ContByte>>, <<LeadByte, ContByte, NL>>, <<LBRACE>>, <<RBRACE>>,
         <<RBRACE, LBRACE>>, <<QUOTE>>, <<NL>>}

Pieces == Objects \cup Scalars \cup Junk

RECURSIVE Concat(_)
Concat(ss) == IF ss = <<>> THEN <<>> ELSE Head(ss) \o Concat(Tail(ss))

BodiesOf(P, n) == {Concat(ps) : ps \in UNION {[1..k -> P] : k \in 0..n}}

\* concatenated JSON: top-level objects back to back
ConcatBodies == BodiesOf(Objects, MaxPieces) \ {<<>>}

\* NDJSON: one JSON value per line, the last line with or without its newline
Values == {ObjPlain, ObjBrace, <<QUOTE, "a", QUOTE>>, <<"null">>,
           <<LBRACK, LBRACE, RBRACE, RBRACK>>}

RECURSIVE JoinLines(_)
JoinLines(ls) ==
    IF Len(ls) = 1 THEN Head(ls) ELSE Head(ls) \o <<NL>> \o JoinLines(Tail(ls))

NdjsonBodies ==
    {JoinLines(ls) \o t : ls \in UNION {[1..k -> Values] : k \in 1..MaxLines},
                          t \in {<<>>, <<NL>>}}

\* the bodies of error responses
ErrorBodies == BodiesOf(Pieces, 1)

Bodies == BodiesOf(Pieces, MaxPieces) \cup NdjsonBodies

(***************************************************************************)
(* The Chat component: its messages are a Map, kept here as the sequence   *)
(* of its values in insertion order.                                       *)
(***************************************************************************)
\* '\u200B', which String.prototype.trim keeps
ZWSP == "ZWSP"

Ids(msgs) == {msgs[k].id : k \in 1..Len(msgs)}

IndexOfId(msgs, id) == CHOOSE k \in 1..Len(msgs) : msgs[k].id = id

\* next.set(id, m): a new key goes last, a key that exists keeps its place
MapSet(msgs, m) ==
    IF m.id \in Ids(msgs) THEN [msgs EXCEPT ![IndexOfId(msgs, m.id)] = m]
    ELSE Append(msgs, m)

\* addMessage: a text that trims to nothing is dropped
AddMessage(msgs, msg) ==
    IF Trim(msg.text) = <<>> THEN msgs
    ELSE MapSet(msgs, [id |-> msg.id, text |-> Trim(msg.text), sender |-> msg.sender,
                       time |-> msg.time])

\* the updater of appendMessage throws: no message has the id
AppendThrows(msgs, incoming) == incoming.id \notin Ids(msgs)

\* existing.text ? `${existing.text}${incoming.text}` : incoming.text
AppendedText(existing, incoming) ==
    IF existing.text # <<>> THEN existing.text \o incoming.text ELSE incoming.text

\* AppendMessage as an update that moves the message to the end of the Map
AppendMessageM(msgs, incoming) ==
    IF AppendThrows(msgs, incoming) THEN msgs
    ELSE Append(SelectSeq(msgs, LAMBDA m : m.id # incoming.id),
                [msgs[IndexOfId(msgs, incoming.id)] EXCEPT
                    !.text = AppendedText(msgs[IndexOfId(msgs, incoming.id)], incoming),
                    !.time = incoming.time])

\* appendMessage: the state is left as it was when the updater throws
AppendMessage(msgs, incoming) ==
    IF AppendThrows(msgs, incoming) THEN msgs
    ELSE [msgs EXCEPT ![IndexOfId(msgs, incoming.id)] =
            [msgs[IndexOfId(msgs, incoming.id)] EXCEPT
                !.text = AppendedText(msgs[IndexOfId(msgs, incoming.id)], incoming),
                !.time = incoming.time]]

\* a call of a method of the handle, as the caller made it
HandleCall(op, id, text, threw) == [op |-> op, id |-> id, text |-> text, threw |-> threw]

\* Date.now() while onSend runs
Now == 3

\* useState(() => { ...; m.set(1, { id: 1, text: 'Welcome to ...', ... }); return m })
Welcome == [id |-> 1, text |-> <<"Welcome">>, sender |-> "assistant", time |-> 1]

\* the messages after calls of appendMessage, those that threw left out
RECURSIVE ApplyAppends(_, _)
ApplyAppends(msgs, calls) ==
    IF calls = <<>> THEN msgs
    ELSE ApplyAppends(IF Head(calls).threw THEN msgs
                      ELSE AppendMessage(msgs, [id |-> Head(calls).id,
                                                text |-> Head(calls).text,
                                                sender |-> "assistant", time |-> Now]),
                      Tail(calls))

(***************************************************************************)
(* One call of sendMessage.                                                *)
(***************************************************************************)
VARIABLES
    body,       \* the bytes of the response body
    cuts,       \* the positions at which the transport cuts the body into chunks
    hasBody,    \* res.body is not null
    resOk,      \* res.ok: the HTTP status is 2xx
    pc,         \* "start", "response", "reading", "resolved", "rejected"
    pos,        \* the bytes of body read so far
    wholeChunk, \* the body arrived as one chunk
    pending,    \* the TextDecoder holds a lead byte
    buffer,
    lastEvent,
    delivered,  \* the events passed to the callback, in order
    units,      \* the texts passed to emitJson, in order
    thrownAt,   \* the invocations of the callback that threw
    result,     \* the value sendMessage resolved with
    cause,      \* why sendMessage rejected: "fetch", "read", "callback"
    fetches,    \* the requests issued
    stream,     \* request.stream: "true", "false" or "undefined"
    callback,   \* a callback was passed to sendMessage
    requested,  \* the stream flag of the request that was sent, "none" before
    handle,     \* this.chatHandle?.current: "none" or "chat"
    opc,        \* onSend: "off" (sendMessage is called directly), "idle", "sending", "done"
    assistantId,\* the id onSend gave its placeholder, 0 before
    outcome,    \* onSend: "pending", "result", "undefined", "rethrown"
    ui,         \* the calls made on the handle, in order
    messages,   \* the messages of the Chat component
    peer        \* a second call of sendMessage in flight on the same ChatApi: its locals

\* what no step of sendMessage changes
outer == <<stream, callback, handle, opc, assistantId, outcome, peer>>

\* what the callback of onSend changes
chat == <<ui, messages>>

\* the state of the call of sendMessage, pc left out
call == <<body, cuts, hasBody, resOk, pos, wholeChunk, pending, buffer, lastEvent, delivered,
          units, thrownAt, result, cause, fetches, requested>>

vars == <<call, pc, outer, chat>>

\* cuts of a transport that may cut the body anywhere
Unscripted == {0}

InitAt(B, C, p) ==
    /\ body \in B
    /\ cuts \in C
    /\ hasBody \in BOOLEAN
    /\ resOk \in (IF body \in ErrorBodies THEN BOOLEAN ELSE {TRUE})
    /\ pc = p
    /\ pos = 0
    /\ wholeChunk = FALSE
    /\ pending = FALSE
    /\ buffer = <<>>
    /\ lastEvent = DefaultEvent
    /\ delivered = <<>>
    /\ units = <<>>
    /\ thrownAt = {}
    /\ result = DefaultEvent
    /\ cause = "none"
    /\ fetches = 0

InitWith(B, C) == InitAt(B, C, "start")

\* the arguments of the call: sendMessage(request, callback)
StreamFlags == {"true", "false", "undefined"}

CallWith(S, K) ==
    /\ stream \in S
    /\ callback \in K
    /\ requested = "none"

\* the locals of a call of sendMessage and the response it reads: a call made
\* with a callback that returns, at pc p, for the body b cut at c
PeerAt(p, b, c) ==
    [pc |-> p, body |-> b, cuts |-> c, pos |-> 0, pending |-> FALSE, buffer |-> <<>>,
     lastEvent |-> DefaultEvent, delivered |-> <<>>, units |-> <<>>,
     result |-> DefaultEvent, between |-> FALSE]

\* no second call is made
NoPeer == PeerAt("none", <<>>, {})

\* sendMessage is called directly, with a callback of the caller's
NoController ==
    /\ peer = NoPeer
    /\ handle = "none"
    /\ opc = "off"
    /\ assistantId = 0
    /\ outcome = "pending"
    /\ ui = <<>>
    /\ messages = <<>>

Init == InitWith(Bodies, {Unscripted}) /\ CallWith({"true"}, {TRUE}) /\ NoController

\* the invocations at which the callback may throw during one step
Plans == {p \in SUBSET ((Len(delivered) + 1)..(Len(delivered) + MaxThrows)) :
            Cardinality(p) + Cardinality(thrownAt) <= MaxThrows}

\* the callback's behaviour is drawn when a step invokes it: quiet is the
\* step's outcome with a callback that returns
PlansFor(quiet) == IF quiet.delivered = delivered THEN {{}} ELSE Plans

DecodeState(buf, plan) ==
    [buffer |-> buf, lastEvent |-> lastEvent, delivered |-> delivered,
     units |-> units, thrownAt |-> thrownAt, plan |-> plan, thrown |-> FALSE,
     callback |-> callback]

\* onMessage: ev => handle.appendMessage({id: assistantId, text: ev.response, ...}),
\* for the events a step delivered
AppendCalls(d) ==
    [k \in 1..(Len(d.delivered) - Len(delivered)) |->
        HandleCall("appendMessage", assistantId, d.delivered[Len(delivered) + k].response,
                   (Len(delivered) + k) \in d.thrownAt)]

\* what a step that ran emitJson leaves: the call goes on at pc next, or the
\* callback's exception rejects it
Commit(d, next) ==
    /\ buffer' = d.buffer
    /\ lastEvent' = d.lastEvent
    /\ delivered' = d.delivered
    /\ units' = d.units
    /\ thrownAt' = d.thrownAt
    /\ pc' = IF d.thrown THEN "rejected" ELSE next
    /\ cause' = IF d.thrown THEN "callback" ELSE cause
    /\ ui' = IF opc = "off" THEN ui ELSE ui \o AppendCalls(d)
    /\ messages' = IF opc = "off" THEN messages ELSE ApplyAppends(messages, AppendCalls(d))

\* const res = await fetch(..., { body: JSON.stringify(request) })
Fetch ==
    /\ pc = "start"
    /\ pc' = "response"
    /\ requested' = stream
    /\ fetches' = fetches + 1
    /\ UNCHANGED <<outer, chat>>
    /\ UNCHANGED <<body, cuts, hasBody, resOk, pos, wholeChunk, pending, buffer, lastEvent, delivered,
                   units, thrownAt, result, cause>>

\* fetch rejects: a network error
FetchFail ==
    /\ pc = "start"
    /\ pc' = "rejected"
    /\ cause' = "fetch"
    /\ requested' = stream
    /\ fetches' = fetches + 1
    /\ UNCHANGED <<outer, chat>>
    /\ UNCHANGED <<body, cuts, hasBody, resOk, pos, wholeChunk, pending, buffer, lastEvent, delivered,
                   units, thrownAt, result>>

\* NoBody as a path also taken when the request did not ask for a stream
NoBodyM ==
    /\ pc = "response" /\ (~hasBody \/ stream # "true")
    /\ \E plan \in PlansFor(NoBodyPath(DecodeState(buffer, {}), ResText(body))) :
         LET d == NoBodyPath(DecodeState(buffer, plan), ResText(body))
         IN  /\ Commit(d, "resolved")
             /\ result' = IF d.thrown THEN result ELSE d.lastEvent
    /\ pos' = Len(body)
    /\ UNCHANGED outer
    /\ UNCHANGED <<requested, body, cuts, hasBody, resOk, wholeChunk, pending, fetches>>

\* if (!res.body) { ... return ev }
NoBody ==
    /\ pc = "response" /\ ~hasBody
    /\ \E plan \in PlansFor(NoBodyPath(DecodeState(buffer, {}), ResText(body))) :
         LET d == NoBodyPath(DecodeState(buffer, plan), ResText(body))
         IN  /\ Commit(d, "resolved")
             /\ result' = IF d.thrown THEN result ELSE d.lastEvent
    /\ pos' = Len(body)
    /\ UNCHANGED outer
    /\ UNCHANGED <<requested, body, cuts, hasBody, resOk, wholeChunk, pending, fetches>>

\* const reader = res.body.getReader(); ...; let done = false
GetReader ==
    /\ pc = "response" /\ hasBody
    /\ pc' = "reading"
    /\ UNCHANGED <<outer, chat>>
    /\ UNCHANGED <<requested, body, cuts, hasBody, resOk, pos, wholeChunk, pending, buffer, lastEvent, delivered,
                   units, thrownAt, result, cause, fetches>>

\* the sizes the next chunk may have: any, or up to the next cut
ChunkSizes ==
    IF cuts = Unscripted THEN 0..(Len(body) - pos)
    ELSE {c - pos : c \in {e \in cuts \cup {Len(body)} :
                              e > pos /\ \A f \in cuts : f > pos => e <= f}}

\* reader.read() resolves with a chunk of n bytes; one pass of the loop
ReadChunk ==
    /\ pc = "reading"
    /\ \E n \in ChunkSizes :
         LET dec == DecodeStream(pending, SubSeq(body, pos + 1, pos + n))
         IN  /\ \E plan \in PlansFor(ReadPass(DecodeState(buffer \o dec.text, {}))) :
                  Commit(ReadPass(DecodeState(buffer \o dec.text, plan)), "reading")
             /\ pending' = dec.pend
             /\ pos' = pos + n
             /\ wholeChunk' = IF n = 0 THEN wholeChunk ELSE pos = 0 /\ n = Len(body)
    /\ UNCHANGED outer
    /\ UNCHANGED <<requested, body, cuts, hasBody, resOk, result, fetches>>

\* ReadEnd as an end of the stream that rejects the call, as a failed read does
ReadEndM ==
    /\ pc = "reading" /\ pos = Len(body)
    /\ pc' = "rejected"
    /\ cause' = "read"
    /\ UNCHANGED <<outer, chat>>
    /\ UNCHANGED <<requested, body, cuts, hasBody, resOk, pos, wholeChunk, pending, buffer, lastEvent, delivered,
                   units, thrownAt, result, fetches>>

\* reader.read() resolves with done: the last pass, the leftover, the return
ReadEnd ==
    /\ pc = "reading" /\ pos = Len(body)
    /\ \E plan \in PlansFor(Leftover(ReadPass(DecodeState(buffer, {})))) :
         LET d == Leftover(ReadPass(DecodeState(buffer, plan)))
         IN  /\ Commit(d, "resolved")
             /\ result' = IF d.thrown THEN result ELSE d.lastEvent
    /\ UNCHANGED outer
    /\ UNCHANGED <<requested, body, cuts, hasBody, resOk, pos, wholeChunk, pending, fetches>>

\* ReadFail as a failure after which the buffered text is still decoded
ReadFailM ==
    /\ pc = "reading"
    /\ pc' = "rejected"
    /\ cause' = "read"
    /\ LET d == Leftover(DecodeState(buffer, {}))
       IN  /\ buffer' = d.buffer
           /\ lastEvent' = d.lastEvent
           /\ delivered' = d.delivered
           /\ units' = d.units
    /\ UNCHANGED <<outer, chat>>
    /\ UNCHANGED <<requested, body, cuts, hasBody, resOk, pos, wholeChunk, pending, thrownAt, result,
                   fetches>>

\* reader.read() rejects
ReadFail ==
    /\ pc = "reading"
    /\ pc' = "rejected"
    /\ cause' = "read"
    /\ UNCHANGED <<outer, chat>>
    /\ UNCHANGED <<requested, body, cuts, hasBody, resOk, pos, wholeChunk, pending, buffer, lastEvent, delivered,
                   units, thrownAt, result, fetches>>

Next == Fetch \/ FetchFail \/ NoBody \/ GetReader \/ ReadChunk \/ ReadEnd \/ ReadFail

Spec == Init /\ [][Next]_vars

\* a call whose transport does not fail: the steps of sendMessage run when
\* the promise they await has resolved, the chunks arrive, and the stream ends
NextLive == Fetch \/ NoBody \/ GetReader \/ ReadChunk \/ ReadEnd

\* await reader.read() resolves with bytes while the body has bytes left:
\* the step of ReadChunk that moves pos
ChunkArrives == pc = "reading" /\ pos' \in (pos + 1)..Len(body)

\* await reader.read() resolves with done once the body is read: the step
\* ReadEnd, which ends the call
StreamEnds == pc = "reading" /\ pos = Len(body) /\ pc' \in {"resolved", "rejected"}

\* await res.text() resolves: the step NoBody, which ends the call
TextArrives == pc = "response" /\ ~hasBody /\ pc' \in {"resolved", "rejected"}

\* Every await of the call resolves.  Fairness of ReadChunk, ReadEnd and
\* NoBody is stated on the variable their step moves: under NextLive a step
\* that moves pos is a ReadChunk step, and a step that ends the call from
\* "reading" or "response" is a ReadEnd or a NoBody step.
SpecLive ==
    /\ Init
    /\ [][NextLive]_vars
    /\ WF_vars(Fetch) /\ WF_vars(GetReader)
    /\ WF_pos(ChunkArrives) /\ WF_pc(StreamEnds) /\ WF_pc(TextArrives)

(***************************************************************************)
(* ChatController.onSend around one call of sendMessage.                   *)
(***************************************************************************)
\* Math.floor(Math.random() * 1000), up to a bound
MaxRandom == 1

\* const assistantId = Date.now() + Math.floor(Math.random() * 1000)
AssistantIds == {Now + r : r \in 0..MaxRandom}

\* {id: assistantId, text: '\u200B', sender: 'assistant', time: Date.now()}
Placeholder(id) == [id |-> id, text |-> <<ZWSP>>, sender |-> "assistant", time |-> Now]

\* the message the user submitted before onSend was called, when there is one
UserMessages ==
    {[id |-> i, text |-> <<"hi">>, sender |-> "user", time |-> i] : i \in 2..Now}

\* the messages of the Chat when onSend is called
SendMessages == {<<Welcome>>} \cup {<<Welcome, m>> : m \in UserMessages}

\* the bodies of the responses to onSend
SendBodies == BodiesOf(Pieces, 1) \cup NdjsonBodies

InitSend ==
    /\ InitAt(SendBodies, {Unscripted}, "idle")
    /\ peer = NoPeer
    /\ stream = "undefined"
    /\ callback = FALSE
    /\ requested = "none"
    /\ handle \in {"none", "chat"}
    /\ opc = "idle"
    /\ assistantId = 0
    /\ outcome = "pending"
    /\ ui = <<>>
    /\ messages \in SendMessages

\* OnSend as a handler that asks for the stream before it inserts the placeholder
OnSendM ==
    /\ opc = "idle"
    /\ opc' = "sending"
    /\ pc' = "start"
    /\ stream' = "true"
    /\ callback' = (handle # "none")
    /\ \E id \in AssistantIds : assistantId' = IF handle = "none" THEN assistantId ELSE id
    /\ UNCHANGED <<call, handle, peer, outcome, chat>>

\* onSend up to its call of sendMessage: without a handle the request is
\* {message, stream: false} and no callback is passed; with one the
\* placeholder is added and the callback appends to it
OnSend ==
    /\ opc = "idle"
    /\ opc' = "sending"
    /\ pc' = "start"
    /\ IF handle = "none"
       THEN /\ stream' = "false"
            /\ callback' = FALSE
            /\ UNCHANGED <<assistantId, chat>>
       ELSE /\ stream' = "true"
            /\ callback' = TRUE
            /\ \E id \in AssistantIds :
                 /\ assistantId' = id
                 /\ ui' = Append(ui, HandleCall("addMessage", id, <<ZWSP>>, FALSE))
                 /\ messages' = AddMessage(messages, Placeholder(id))
    /\ UNCHANGED <<call, handle, peer, outcome>>

\* return await this.client.sendMessage(...)
OnSendReturn ==
    /\ opc = "sending" /\ pc = "resolved"
    /\ opc' = "done"
    /\ outcome' = "result"
    /\ UNCHANGED <<call, pc, stream, callback, handle, peer, assistantId, chat>>

\* const errText = typeof err === 'string' ? err : (err instanceof Error ? err.message : 'Error')
ErrText(c) == <<c>>

\* `\n\n[Error] ${errText}`
ErrorMarker(c) == <<NL, NL, "[Error] ">> \o ErrText(c)

\* OnSendCatch as a catch that lets the failure of the marker's append escape
OnSendCatchM ==
    /\ opc = "sending" /\ pc = "rejected"
    /\ opc' = "done"
    /\ IF handle = "none"
       THEN outcome' = "undefined" /\ UNCHANGED chat
       ELSE \E threw \in BOOLEAN :
              /\ ui' = Append(ui, HandleCall("appendMessage", assistantId,
                                             ErrorMarker(cause), threw))
              /\ messages' = IF threw THEN messages
                             ELSE AppendMessage(messages, [id |-> assistantId,
                                      text |-> ErrorMarker(cause), sender |-> "assistant",
                                      time |-> Now])
              /\ outcome' = IF threw THEN "marker" ELSE "rethrown"
    /\ UNCHANGED <<call, pc, stream, callback, handle, peer, assistantId>>

\* the two catch blocks of onSend: without a handle the failure is
\* swallowed; with one the marker is appended, a throw of that append is
\* ignored, and err is thrown again
OnSendCatch ==
    /\ opc = "sending" /\ pc = "rejected"
    /\ opc' = "done"
    /\ IF handle = "none"
       THEN outcome' = "undefined" /\ UNCHANGED chat
       ELSE \E threw \in BOOLEAN :
              /\ ui' = Append(ui, HandleCall("appendMessage", assistantId,
                                             ErrorMarker(cause), threw))
              /\ messages' = IF threw THEN messages
                             ELSE AppendMessage(messages, [id |-> assistantId,
                                      text |-> ErrorMarker(cause), sender |-> "assistant",
                                      time |-> Now])
              /\ outcome' = "rethrown"
    /\ UNCHANGED <<call, pc, stream, callback, handle, peer, assistantId>>

NextSend ==
    \/ OnSend \/ OnSendReturn \/ OnSendCatch
    \/ Fetch \/ FetchFail \/ NoBody \/ GetReader \/ ReadChunk \/ ReadEnd \/ ReadFail

SpecSend == InitSend /\ [][NextSend]_vars

(***************************************************************************)
(* The Chat component under calls of its handle.                           *)
(***************************************************************************)
\* the calls made in one run
MaxCalls == 3

ChatIds == {1, 2}

\* texts of addMessage: blank, padded, and the invisible character
AddTexts == {<<SP>>, <<SP, "a", NL>>, <<ZWSP>>}

\* texts of appendMessage
AppendTexts == {<<"b">>, <<SP>>}

Times == {2, 3}

\* the prop initialMessages, set into the Map as it is
InitialMessages ==
    {<<>>, <<[id |-> 2, text |-> <<>>, sender |-> "user", time |-> 1]>>,
     <<[id |-> 1, text |-> <<"x">>, sender |-> "user", time |-> 1]>>}

RECURSIVE SetAll(_, _)
SetAll(msgs, ims) ==
    IF ims = <<>> THEN msgs ELSE SetAll(MapSet(msgs, Head(ims)), Tail(ims))

InitChat ==
    /\ InitAt({<<>>}, {Unscripted}, "idle")
    /\ hasBody
    /\ peer = NoPeer
    /\ stream = "undefined"
    /\ callback = FALSE
    /\ requested = "none"
    /\ handle = "chat"
    /\ opc = "off"
    /\ assistantId = 0
    /\ outcome = "pending"
    /\ ui = <<>>
    /\ \E ims \in InitialMessages : messages = SetAll(<<Welcome>>, ims)

\* handle.addMessage(msg)
ChatAdd ==
    /\ Len(ui) < MaxCalls
    /\ \E id \in ChatIds, text \in AddTexts, sender \in {"user", "assistant"}, t \in Times :
         /\ messages' = AddMessage(messages, [id |-> id, text |-> text, sender |-> sender,
                                              time |-> t])
         /\ ui' = Append(ui, HandleCall("addMessage", id, text, FALSE))
    /\ UNCHANGED <<call, pc, outer>>

\* handle.appendMessage(incoming)
ChatAppend ==
    /\ Len(ui) < MaxCalls
    /\ \E id \in ChatIds, text \in AppendTexts, t \in Times :
         /\ messages' = AppendMessage(messages, [id |-> id, text |-> text, sender |-> "user",
                                                 time |-> t])
         /\ ui' = Append(ui, HandleCall("appendMessage", id, text,
                                        AppendThrows(messages, [id |-> id])))
    /\ UNCHANGED <<call, pc, outer>>

NextChat == ChatAdd \/ ChatAppend

SpecChat == InitChat /\ [][NextChat]_vars

(***************************************************************************)
(* Scenario bodies: a two-line body that arrives in three given chunks,    *)
(* and the fixtures of the mock server.                                    *)
(***************************************************************************)
\* {"response":"Hel
HelloFirst == <<LBRACE, QUOTE, "response", QUOTE, COLON, QUOTE, "Hel">>
\* lo","thinking":"","done":false}\n{"respon
HelloSecond == <<"lo", QUOTE, COMMA, QUOTE, "thinking", QUOTE, COLON, QUOTE, QUOTE, COMMA,
                 QUOTE, "done", QUOTE, COLON, "false", RBRACE, NL, LBRACE, QUOTE, "respon">>
\* se":"World","thinking":"","done":true}
HelloThird == <<"se", QUOTE, COLON, QUOTE, "World", QUOTE, COMMA, QUOTE, "thinking", QUOTE,
                COLON, QUOTE, QUOTE, COMMA, QUOTE, "done", QUOTE, COLON, "true", RBRACE>>

HelloBody == HelloFirst \o HelloSecond \o HelloThird
HelloCuts == {Len(HelloFirst), Len(HelloFirst) + Len(HelloSecond)}

\* JSON.stringify(obj) of a fixture {response, thinking, done}
FixtureLine(r, t, d) ==
    <<LBRACE, QUOTE, "response", QUOTE, COLON, QUOTE>> \o r
        \o <<QUOTE, COMMA, QUOTE, "thinking", QUOTE, COLON, QUOTE>> \o t
        \o <<QUOTE, COMMA, QUOTE, "done", QUOTE, COLON, d, RBRACE>>

\* const fixtures = [ ... ]
fixtures ==
    <<[response |-> <<"First chunk">>, thinking |-> <<"...">>, done |-> FALSE],
      [response |-> <<"Second chunk">>, thinking |-> <<"still thinking">>, done |-> FALSE],
      [response |-> <<"Final chunk">>, thinking |-> <<>>, done |-> TRUE]>>

\* const payload = JSON.stringify(obj)
Payload(obj) ==
    FixtureLine(obj.response, obj.thinking, IF obj.done THEN "true" ELSE "false")

\* the fixtures as NDJSON, the last line without its newline
FixturesNoTrailing ==
    Payload(fixtures[1]) \o <<NL>> \o Payload(fixtures[2]) \o <<NL>> \o Payload(fixtures[3])

\* the fixtures without NDJSON: one payload after the other
FixturesConcat == Payload(fixtures[1]) \o Payload(fixtures[2]) \o Payload(fixtures[3])

\* a transport that cuts the body once
OneCut(b) == {{k} : k \in 1..(Len(b) - 1)}

InitScenario ==
    /\ \/ InitWith({HelloBody}, {Unscripted, HelloCuts})
       \/ InitWith({FixturesNoTrailing}, {Unscripted} \cup OneCut(FixturesNoTrailing))
       \/ InitWith({FixturesConcat}, OneCut(FixturesConcat))
    /\ CallWith(StreamFlags, BOOLEAN)
    /\ NoController

SpecScenario == InitScenario /\ [][Next]_vars

(***************************************************************************)
(* Reference decodings, computed from the whole text by the JSON grammar   *)
(* and not by the scanner.                                                 *)
(***************************************************************************)
Last(q) == q[Len(q)]

\* the callback has returned normally at every invocation so far
Normal == thrownAt = {}

\* the event of one JSON value with the defaults of MessageEvent
RefEvent(v) ==
    LET r == Member(v.items, <<"response">>)
        t == Member(v.items, <<"thinking">>)
        d == Member(v.items, <<"done">>)
    IN  [response |-> IF v.k = "obj" /\ r.has /\ r.val.k = "str"
                      THEN r.val.s ELSE JSONStringify(v),
         thinking |-> IF v.k = "obj" /\ t.has /\ t.val.k = "str" THEN t.val.s ELSE <<>>,
         done |-> IF v.k = "obj" /\ d.has /\ d.val.k = "bool" THEN d.val.b ELSE TRUE]

\* the events of the top-level values of a text, one after the other
RECURSIVE RefValues(_, _)
RefValues(s, i) ==
    IF SkipWs(s, i) > Len(s) THEN <<>>
    ELSE LET v == ParseValue(s, i)
         IN  IF v.ok THEN <<RefEvent(v.val)>> \o RefValues(s, v.pos)
             ELSE <<[response |-> <<"unparsable">>, thinking |-> <<>>, done |-> TRUE]>>

\* the events of the non-empty lines of a text, each parsed as JSON
RECURSIVE RefLineEvents(_)
RefLineEvents(lines) ==
    IF lines = <<>> THEN <<>>
    ELSE (IF Head(lines) = <<>> THEN <<>>
          ELSE <<RefEvent(JSONParse(Head(lines)).val)>>)
         \o RefLineEvents(Tail(lines))

RefLines(s) == RefLineEvents(Split(s))

IsPrefix(p, q) == Len(p) <= Len(q) /\ SubSeq(q, 1, Len(p)) = p

HasNewline(s) == IndexOf(s, NL) # 0

RECURSIVE StripWs(_)
StripWs(s) ==
    IF s = <<>> THEN <<>>
    ELSE (IF IsSpace(Head(s)) THEN <<>> ELSE <<Head(s)>>) \o StripWs(Tail(s))

\* the non-blank lines of a text
NonBlankLines(s) == TrimNonEmpty(Split(s))

\* the event the no-body path returns for a text, with a callback that returns
NoBodyResult(txt) ==
    NoBodyPath([buffer |-> <<>>, lastEvent |-> DefaultEvent, delivered |-> <<>>,
                units |-> <<>>, thrownAt |-> {}, plan |-> {}, thrown |-> FALSE,
                callback |-> TRUE],
               txt).lastEvent

(***************************************************************************)
(* C1 as stated: for every well-formed concatenated-JSON body and every    *)
(* chunking, the callback is invoked exactly once per top-level object, in *)
(* source order, with the event decoded from that object.  Fails for an    *)
(* object printed on several lines: the newline strategy cuts it.          *)
(***************************************************************************)
C1_AsStated ==
    (hasBody /\ resOk /\ Normal /\ body \in ConcatBodies /\ pc = "resolved")
        => delivered = RefValues(ResText(body), 1)

(***************************************************************************)
(* C1 amended: for every well-formed concatenated-JSON body that contains  *)
(* no newline character and every chunking, the callback is invoked        *)
(* exactly once per top-level object, in source order, with the event      *)
(* decoded from that object; while the stream is read the events delivered *)
(* are a prefix of that sequence.                                          *)
(***************************************************************************)
C1_ConcatDecoded ==
    (hasBody /\ resOk /\ Normal /\ body \in ConcatBodies /\ ~HasNewline(body))
        => /\ pc = "resolved" => delivered = RefValues(ResText(body), 1)
           /\ pc \in {"reading", "rejected"}
                => IsPrefix(delivered, RefValues(ResText(body), 1))

\* two objects, the first with a brace inside a string, arrived in several
\* chunks and were decoded
C1_Witness ==
    /\ hasBody /\ resOk /\ Normal /\ pc = "resolved" /\ ~wholeChunk
    /\ body = ObjBrace \o ObjThink
    /\ Len(delivered) = 2

(***************************************************************************)
(* C2 as stated: for every well-formed NDJSON body and every chunking, the *)
(* events observed by the callback are those of the non-empty lines of the *)
(* whole body, each parsed as JSON and mapped with the defaults, in order. *)
(***************************************************************************)
C2_NdjsonDecoded ==
    (hasBody /\ resOk /\ Normal /\ body \in NdjsonBodies /\ pc = "resolved")
        => delivered = RefLines(ResText(body))

(***************************************************************************)
(* C3 as stated: for a text that is one complete JSON object, the event of *)
(* the no-body path equals the event returned by the streaming path when   *)
(* the text arrives as a single chunk followed by stream end.              *)
(***************************************************************************)
C3_PathsAgree ==
    (hasBody /\ resOk /\ Normal /\ wholeChunk /\ pc = "resolved"
       /\ JSONParse(ResText(body)).ok /\ JSONParse(ResText(body)).val.k = "obj")
        => result = NoBodyResult(ResText(body))

(***************************************************************************)
(* C4 as stated: the value sendMessage resolves with is the last event     *)
(* passed to the callback, and it is the default exactly when no event was *)
(* emitted.  Fails when an emitted event equals the default.               *)
(***************************************************************************)
C4_AsStated ==
    (hasBody /\ pc = "resolved")
        => /\ delivered # <<>> => result = Last(delivered)
           /\ (result = DefaultEvent) <=> (delivered = <<>>)

(***************************************************************************)
(* C4 amended: the value sendMessage resolves with is the last event       *)
(* passed to the callback, and the default {response:'', thinking:'',      *)
(* done:true} when no event was emitted.                                   *)
(***************************************************************************)
C4_ReturnsLast ==
    (hasBody /\ pc = "resolved")
        => result = IF delivered = <<>>
                    THEN [response |-> <<>>, thinking |-> <<>>, done |-> TRUE]
                    ELSE Last(delivered)

\* a call resolved with the second of two different events
C4_Witness ==
    /\ hasBody /\ pc = "resolved" /\ Len(delivered) = 2
    /\ delivered[1] # delivered[2]
    /\ result = delivered[2] /\ result # DefaultEvent

(***************************************************************************)
(* C5: when the reader signals the end at once (no chunk), sendMessage     *)
(* resolves with the default event and the callback is never invoked.      *)
(***************************************************************************)
C5_EmptyStream ==
    (hasBody /\ body = <<>> /\ pc = "resolved")
        => /\ result = [response |-> <<>>, thinking |-> <<>>, done |-> TRUE]
           /\ delivered = <<>>

C5_Witness == hasBody /\ body = <<>> /\ pc = "resolved" /\ pos = 0

(***************************************************************************)
(* C6: a unit that is not valid JSON is decoded to the raw event of its    *)
(* text; a parse failure never rejects the call (only a failed fetch, a    *)
(* failed read or a throwing callback do) and never stops decoding: every  *)
(* unit is emitted, and a resolved call has emitted at least one event per *)
(* non-blank line of the body.                                             *)
(***************************************************************************)
C6_ParseFailureIsRaw ==
    /\ Normal =>
         /\ Len(delivered) = Len(units)
         /\ \A k \in 1..Len(units) :
              ~JSONParse(units[k]).ok
                => delivered[k] = [response |-> units[k], thinking |-> <<>>,
                                   done |-> TRUE]
    /\ pc = "rejected" => cause \in {"fetch", "read"} \/ ~Normal
    /\ (hasBody /\ Normal /\ pc = "resolved")
         => Len(delivered) >= Len(NonBlankLines(ResText(body)))

\* a unit that is no JSON was emitted raw, and a JSON unit after it decoded
C6_Witness ==
    /\ hasBody /\ Normal /\ pc = "resolved" /\ Len(units) = 2
    /\ ~JSONParse(units[1]).ok
    /\ delivered[1].response = units[1]
    /\ JSONParse(units[2]).ok
    /\ delivered[2].response = <<"a">>

(***************************************************************************)
(* C7 as stated: when the callback throws, sendMessage rejects with the    *)
(* exception and the callback is not invoked again, for that unit or a     *)
(* later one.  Fails: the catch of emitJson catches the callback's         *)
(* exception and invokes the callback again with the raw text.             *)
(***************************************************************************)
C7_ThrowPropagates ==
    \A n \in thrownAt :
        /\ pc = "rejected" /\ cause = "callback"
        /\ Len(delivered) = n

(***************************************************************************)
(* C8 as stated: a response with a non-OK status whose body is readable is *)
(* surfaced as a rejection, not decoded and returned.                      *)
(***************************************************************************)
C8_NonOkRejects == (hasBody /\ ~resOk) => (pc # "resolved" /\ delivered = <<>>)

(***************************************************************************)
(* C9 as stated: no text of a streamed body other than white space is      *)
(* discarded: the units emitted hold all of it, in order.                  *)
(***************************************************************************)
C9_NothingDiscarded ==
    (hasBody /\ resOk /\ Normal /\ pc = "resolved")
        => StripWs(Concat(units)) = StripWs(ResText(body))

(***************************************************************************)
(* C10: when reader.read() rejects, sendMessage rejects: the step decodes  *)
(* no buffered text, invokes no callback and issues no request, the events *)
(* delivered before stay, and nothing happens after the rejection.         *)
(***************************************************************************)
C10_ReadFailureRejects ==
    [][/\ pc # "rejected"
       /\ cause' = "read"
            => /\ pc' = "rejected"
               /\ delivered' = delivered
               /\ units' = units
               /\ buffer' = buffer
               /\ fetches' = fetches
               /\ result' = result]_vars

\* a read failed with an event delivered and text still in the buffer
C10_Witness ==
    /\ pc = "rejected" /\ cause = "read"
    /\ delivered # <<>> /\ Trim(buffer) # <<>>
    /\ fetches = 1

(***************************************************************************)
(* What one read pass works on and what it emits.                          *)
(***************************************************************************)
Front(q) == SubSeq(q, 1, Len(q) - 1)

\* the first index from `from` on at which span occurs in s, 0 when none
FindFrom(s, span, from) ==
    IF \E k \in from..(Len(s) - Len(span) + 1) : SubSeq(s, k, k + Len(span) - 1) = span
    THEN CHOOSE k \in from..(Len(s) - Len(span) + 1) :
             /\ SubSeq(s, k, k + Len(span) - 1) = span
             /\ \A j \in from..(k - 1) : SubSeq(s, j, j + Len(span) - 1) # span
    ELSE 0

\* spans occur in s one after the other, without overlap, from `from` on
RECURSIVE InOrder(_, _, _)
InOrder(s, spans, from) ==
    \/ spans = <<>>
    \/ /\ FindFrom(s, Head(spans), from) # 0
       /\ InOrder(s, Tail(spans), FindFrom(s, Head(spans), from) + Len(Head(spans)))

\* the event emitJson passes to a callback that returns, for a unit
EventOfParsed(u, p) ==
    IF p.ok /\ p.val.k # "null" THEN StructuredEvent(p.val) ELSE RawEvent(u)

EventOf(u) == EventOfParsed(u, JSONParse(u))

\* the text a pass starts with: the buffer and the chunk decoded in the step
PassText == buffer \o DecodeStream(pending, SubSeq(body, pos + 1, pos')).text

\* the units emitted in the step
NewUnits == SubSeq(units', Len(units) + 1, Len(units'))

\* new starts with the segments and goes on with spans of the remainder
SegmentsThenSpans(segments, remainder, new) ==
    /\ IsPrefix(segments, new)
    /\ InOrder(remainder, SubSeq(new, Len(segments) + 1, Len(new)), 1)

(***************************************************************************)
(* C11: events reach the callback in the order their units were            *)
(* recognized.  A read pass only appends to the events delivered so far    *)
(* (no event of a later chunk comes before one of an earlier chunk); it    *)
(* first emits the non-blank newline-terminated segments of the buffer, in *)
(* buffer order, and then spans of the remainder after the last newline,   *)
(* one after the other in the order they end.                              *)
(***************************************************************************)
C11_RecognitionOrder ==
    [][(pc = "reading" /\ pc' \in {"reading", "resolved"} /\ thrownAt' = {})
         => /\ IsPrefix(units, units')
            /\ IsPrefix(delivered, delivered')
            /\ Len(delivered') = Len(units')
            /\ \A k \in (Len(delivered) + 1)..Len(delivered') :
                 delivered'[k] = EventOf(units'[k])
            /\ \E parts \in {Split(PassText)}, new \in {NewUnits} :
                 SegmentsThenSpans(TrimNonEmpty(Front(parts)), Last(parts), new)]_vars

\* one pass emitted a newline-terminated segment and then a brace span
C11_Witness ==
    /\ pc = "reading" /\ Normal /\ wholeChunk /\ HasNewline(body)
    /\ Len(units) = 2
    /\ ~JSONParse(units[1]).ok
    /\ units[2] = ObjPlain
    /\ delivered[2].response = <<"a">>

\* the text decoded from the bytes read so far
TextRead == DecodeStream(FALSE, SubSeq(body, 1, pos)).text

IsSuffix(p, q) == Len(p) <= Len(q) /\ SubSeq(q, Len(q) - Len(p) + 1, Len(q)) = p

(***************************************************************************)
(* C12: with a callback that returns, every unit found in the stream is    *)
(* passed to the callback exactly once: there is one event per unit, the   *)
(* units are pieces of the decoded text that follow one another without    *)
(* overlap, and while the stream is read the buffer is the end of the      *)
(* text, behind every unit emitted, so that no strategy sees consumed text *)
(* again.                                                                  *)
(***************************************************************************)
C12_EachUnitOnce ==
    (hasBody /\ Normal /\ pc \in {"reading", "resolved"})
        => /\ Len(delivered) = Len(units)
           /\ InOrder(TextRead, units, 1)
           /\ pc = "reading"
                => /\ IsSuffix(buffer, TextRead)
                   /\ InOrder(TextRead, Append(units, buffer), 1)

\* a line, a brace span and a leftover of one body were emitted, once each
C12_Witness ==
    /\ hasBody /\ Normal /\ pc = "resolved"
    /\ units = <<ObjPlain, <<LBRACE, RBRACE>>, <<RBRACK>>>>
    /\ Len(delivered) = 3

(***************************************************************************)
(* C13: given the chunks '{"response":"Hel',                               *)
(* 'lo","thinking":"","done":false}\n{"respon' and                         *)
(* 'se":"World","thinking":"","done":true}' and then the end of the        *)
(* stream, the callback observes exactly {response:'Hello', thinking:'',   *)
(* done:false} and then {response:'World', thinking:'', done:true}, and    *)
(* sendMessage returns the second; the first is delivered with the second  *)
(* chunk, which holds its newline.                                         *)
(***************************************************************************)
C13_HelloWorld ==
    (hasBody /\ callback /\ Normal /\ body = HelloBody /\ cuts = HelloCuts)
        => /\ (pc = "reading" /\ pos = Len(HelloFirst)) => delivered = <<>>
           /\ (pc = "reading" /\ pos = Len(HelloFirst) + Len(HelloSecond))
                => delivered = <<[response |-> <<"Hello">>, thinking |-> <<>>,
                                  done |-> FALSE]>>
           /\ pc = "resolved"
                => /\ delivered = <<[response |-> <<"Hello">>, thinking |-> <<>>,
                                     done |-> FALSE],
                                    [response |-> <<"World">>, thinking |-> <<>>,
                                     done |-> TRUE]>>
                   /\ result = [response |-> <<"World">>, thinking |-> <<>>, done |-> TRUE]

\* the three chunks were read and the call resolved
C13_Witness ==
    /\ hasBody /\ callback /\ Normal /\ body = HelloBody /\ cuts = HelloCuts
    /\ pc = "resolved" /\ pos = Len(HelloBody)
    /\ Len(delivered) = 2

(***************************************************************************)
(* C14: when the three fixtures of the mock server are sent as NDJSON with *)
(* no newline after the last line, under any chunking, the callback        *)
(* observes the three fixtures in order and sendMessage returns an event   *)
(* equal to the third fixture {response:'Final chunk', thinking:'',        *)
(* done:true}.                                                             *)
(***************************************************************************)
C14_FixturesNdjson ==
    (hasBody /\ callback /\ Normal /\ body = FixturesNoTrailing /\ cuts = Unscripted)
        => /\ pc \in {"reading", "rejected"} => IsPrefix(delivered, fixtures)
           /\ pc = "resolved"
                => /\ delivered = fixtures
                   /\ result = [response |-> <<"Final chunk">>, thinking |-> <<>>,
                                done |-> TRUE]

\* the fixtures arrived in several chunks and the call resolved
C14_Witness ==
    /\ hasBody /\ callback /\ Normal /\ body = FixturesNoTrailing /\ cuts = Unscripted
    /\ ~wholeChunk
    /\ pc = "resolved"
    /\ Len(delivered) = 3
    /\ result = fixtures[3]


\* a call that has done nothing yet
Fresh(cb) ==
    [buffer |-> <<>>, lastEvent |-> DefaultEvent, delivered |-> <<>>, units |-> <<>>,
     thrownAt |-> {}, plan |-> {}, thrown |-> FALSE, callback |-> cb]

\* the end of the chunk that starts after position at, for cut positions c
ChunkEnd(b, c, at) ==
    CHOOSE e \in c \cup {Len(b)} : e > at /\ \A f \in c \cup {Len(b)} : f > at => e <= f

\* the streaming path as a function of the response alone: the body b, its
\* cut positions c, and a callback that returns
RECURSIVE ReadAll(_, _, _, _, _)
ReadAll(d, pend, at, b, c) ==
    IF at >= Len(b) THEN Leftover(ReadPass(d))
    ELSE ReadAll(ReadPass([d EXCEPT !.buffer =
                     @ \o DecodeStream(pend, SubSeq(b, at + 1, ChunkEnd(b, c, at))).text]),
                 DecodeStream(pend, SubSeq(b, at + 1, ChunkEnd(b, c, at))).pend,
                 ChunkEnd(b, c, at), b, c)

\* what a call makes of a response, the request left out
Decoded(b, c, reader, cb) ==
    IF reader THEN ReadAll(Fresh(cb), FALSE, 0, b, c)
    ELSE NoBodyPath(Fresh(cb), ResText(b))

(***************************************************************************)
(* C15: how sendMessage decodes a response depends only on whether the     *)
(* response has a body reader and on the body content, never on the        *)
(* request's stream flag: for every value of request.stream, the callback  *)
(* sequence and the return value of a resolved call are those computed     *)
(* from the response alone (body, chunk boundaries, body reader).  The     *)
(* flag only travels to the server in the request body.                    *)
(***************************************************************************)
C15_StreamFlagUnused ==
    /\ requested \in {"none", stream}
    /\ (pc = "resolved" /\ Normal /\ (~hasBody \/ cuts # Unscripted))
        => /\ delivered = Decoded(body, cuts, hasBody, callback).delivered
           /\ result = Decoded(body, cuts, hasBody, callback).lastEvent

\* a request with stream: false got a body in two chunks and was decoded as
\* a stream, three events long
C15_Witness ==
    /\ stream = "false" /\ requested = "false"
    /\ hasBody /\ callback /\ Normal /\ cuts # Unscripted /\ body = FixturesConcat
    /\ pc = "resolved"
    /\ delivered = fixtures

\* the text of a call begins with "\n\n[Error] "
IsMarker(c) == Len(c.text) >= 3 /\ SubSeq(c.text, 1, 3) = <<NL, NL, "[Error] ">>

Markers == {k \in 1..Len(ui) : IsMarker(ui[k])}

(***************************************************************************)
(* C16: in onSend with a chat handle attached, the placeholder is added    *)
(* (addMessage) before the request is issued, the request is sent with     *)
(* stream: true, and every event delivered by the API results in exactly   *)
(* one appendMessage that targets the id of the placeholder of that same   *)
(* call of onSend, in event order.                                         *)
(***************************************************************************)
C16_PlaceholderThenAppends ==
    handle = "chat"
        => /\ opc = "idle" => (fetches = 0 /\ requested = "none" /\ ui = <<>>)
           /\ opc # "idle"
                => /\ stream = "true" /\ requested \in {"none", "true"}
                   /\ Len(ui) >= 1
                   /\ ui[1] = HandleCall("addMessage", assistantId, <<ZWSP>>, FALSE)
                   /\ assistantId \in Ids(messages)
                   /\ messages[IndexOfId(messages, assistantId)].sender = "assistant"
                   /\ Len(ui) = 1 + Len(delivered) + Cardinality(Markers)
                   /\ \A k \in 1..Len(delivered) :
                        ui[1 + k] = HandleCall("appendMessage", assistantId,
                                               delivered[k].response, k \in thrownAt)

\* onSend returned the result of a stream after two appends of different
\* texts
C16_Witness ==
    /\ handle = "chat" /\ opc = "done" /\ outcome = "result"
    /\ requested = "true" /\ hasBody /\ Normal
    /\ Len(delivered) = 2
    /\ ui = <<HandleCall("addMessage", assistantId, <<ZWSP>>, FALSE),
              HandleCall("appendMessage", assistantId, delivered[1].response, FALSE),
              HandleCall("appendMessage", assistantId, delivered[2].response, FALSE)>>
    /\ delivered[1].response # delivered[2].response

(***************************************************************************)
(* C18: when sendMessage fails inside onSend: with a chat handle attached, *)
(* exactly one error marker ("\n\n[Error] " and the error's text) is       *)
(* appended to the placeholder of that call, after the failure and not     *)
(* before, and the original error is rethrown to the caller, also when     *)
(* the append of the marker throws; with no handle attached, the request   *)
(* is sent with stream: false, no call is made on the UI, and the failure  *)
(* is swallowed: onSend resolves with undefined.                           *)
(***************************************************************************)
C18_FailureInOnSend ==
    /\ (handle = "chat" /\ opc = "sending") => Markers = {}
    /\ (handle = "chat" /\ opc = "done" /\ pc = "rejected")
        => /\ outcome = "rethrown"
           /\ Markers = {Len(ui)}
           /\ Last(ui).op = "appendMessage"
           /\ Last(ui).id = assistantId
           /\ Last(ui).text = ErrorMarker(cause)
           /\ ~Last(ui).threw
                => IsSuffix(ErrorMarker(cause),
                            messages[IndexOfId(messages, assistantId)].text)
    /\ (handle = "chat" /\ opc = "done" /\ pc = "resolved")
        => (outcome = "result" /\ Markers = {})
    /\ (handle = "none" /\ opc # "idle")
        => /\ stream = "false" /\ requested \in {"none", "false"}
           /\ ~callback
           /\ ui = <<>>
           /\ messages \in SendMessages
           /\ (opc = "done" /\ pc = "rejected") => outcome = "undefined"
           /\ (opc = "done" /\ pc = "resolved") => outcome = "result"

\* a read failed after an event was appended, the append of the marker threw,
\* and onSend threw the read's error
C18_Witness ==
    /\ handle = "chat" /\ opc = "done" /\ pc = "rejected" /\ cause = "read"
    /\ outcome = "rethrown"
    /\ Len(delivered) = 1
    /\ Last(ui) = HandleCall("appendMessage", assistantId, ErrorMarker("read"), TRUE)

\* the last call of addMessage for an id, 0 when there is none
LastAdd(id) ==
    IF \E k \in 1..Len(ui) : ui[k].op = "addMessage" /\ ui[k].id = id
    THEN CHOOSE k \in 1..Len(ui) :
            /\ ui[k].op = "addMessage" /\ ui[k].id = id
            /\ \A j \in (k + 1)..Len(ui) : ~(ui[j].op = "addMessage" /\ ui[j].id = id)
    ELSE 0

\* the texts of the calls for an id after call k, one after the other
RECURSIVE TextsAfter(_, _)
TextsAfter(id, k) ==
    IF k >= Len(ui) THEN <<>>
    ELSE (IF ui[k + 1].id = id THEN ui[k + 1].text ELSE <<>>) \o TextsAfter(id, k + 1)

\* the text of the message with an id
TextOf(msgs, id) == msgs[IndexOfId(msgs, id)].text

\* a step that called appendMessage for an id that exists
AppendedTo(id) ==
    /\ Len(ui') = Len(ui) + 1
    /\ Last(ui').op = "appendMessage"
    /\ Last(ui').id = id
    /\ id \in Ids(messages)

(***************************************************************************)
(* C17 as stated: after addMessage(m) followed by calls of appendMessage   *)
(* with texts c1..cn for m.id, the message text is trim(m.text) followed   *)
(* by c1..cn.  Fails for an m whose text trims to nothing: addMessage      *)
(* drops it, and the appends find no message or an older one.              *)
(***************************************************************************)
C17_AsStated ==
    \A id \in ChatIds :
        LastAdd(id) # 0
            => /\ id \in Ids(messages)
               /\ TextOf(messages, id) = Trim(ui[LastAdd(id)].text) \o TextsAfter(id, LastAdd(id))

(***************************************************************************)
(* C17: appendMessage on an id that exists sets that message's text to the *)
(* existing text followed by the incoming text and leaves every other      *)
(* message and the insertion order unchanged; so after addMessage(m), for  *)
(* an m whose text does not trim to nothing, followed by calls of          *)
(* appendMessage with texts c1..cn for m.id, the message text is           *)
(* trim(m.text) followed by c1..cn in call order.                          *)
(***************************************************************************)
C17_AppendConcatenates ==
    /\ [][\A id \in ChatIds :
            AppendedTo(id)
                => /\ Len(messages') = Len(messages)
                   /\ \A k \in 1..Len(messages) :
                        /\ messages'[k].id = messages[k].id
                        /\ messages'[k].sender = messages[k].sender
                        /\ messages[k].id = id
                             => messages'[k].text = messages[k].text \o Last(ui').text
                        /\ messages[k].id # id => messages'[k] = messages[k]]_vars
    /\ [](\A id \in ChatIds :
            (LastAdd(id) # 0 /\ Trim(ui[LastAdd(id)].text) # <<>>)
                => /\ id \in Ids(messages)
                   /\ TextOf(messages, id)
                        = Trim(ui[LastAdd(id)].text) \o TextsAfter(id, LastAdd(id)))

\* a padded text was added after the welcome message, then two texts were
\* appended to it
C17_Witness ==
    /\ Len(ui) = 3 /\ Len(messages) = 2
    /\ ui[1] = HandleCall("addMessage", 2, <<SP, "a", NL>>, FALSE)
    /\ ui[2] = HandleCall("appendMessage", 2, <<"b">>, FALSE)
    /\ ui[3] = HandleCall("appendMessage", 2, <<SP>>, FALSE)
    /\ messages[1] = Welcome
    /\ messages[2].text = <<"a", "b", SP>>

\* the braces open and the string state before position p of a text, by the
\* lexical rules of JSON: a string runs from a quote to the next quote that
\* no backslash escapes, and a brace inside a string is not a brace
RECURSIVE RefNest(_, _, _, _, _)
RefNest(t, i, p, depth, inStr) ==
    IF i >= p THEN [depth |-> depth, inStr |-> inStr]
    ELSE IF inStr
         THEN (IF t[i] = BSLASH THEN RefNest(t, i + 2, p, depth, TRUE)
               ELSE RefNest(t, i + 1, p, depth, t[i] # QUOTE))
         ELSE RefNest(t, i + 1, p,
                      IF t[i] = LBRACE THEN depth + 1
                      ELSE IF t[i] = RBRACE /\ depth > 0 THEN depth - 1
                      ELSE depth,
                      t[i] = QUOTE)

TopLevel == [depth |-> 0, inStr |-> FALSE]

\* the span s..e of t is the unit u, and is an object that opens at the top
\* level of t and closes at its own closing brace
IsTopLevelObject(t, s, e, u) ==
    /\ s >= 1
    /\ SubSeq(t, s, e) = u
    /\ t[s] = LBRACE /\ t[e] = RBRACE
    /\ RefNest(t, 1, s, 0, FALSE) = TopLevel
    /\ RefNest(t, 1, e + 1, 0, FALSE) = TopLevel
    /\ \A j \in (s + 1)..e : RefNest(t, 1, j, 0, FALSE) # TopLevel

\* a pass over a text without newline found one unit
ScanFoundOne ==
    /\ pc = "reading" /\ pc' = "reading"
    /\ thrownAt' = {}
    /\ ~HasNewline(PassText)
    /\ Len(units') = Len(units) + 1

(***************************************************************************)
(* C19: in the brace-counting scan a top-level object that contains nested *)
(* objects is emitted as one unit, only when the depth returns to 0 at its *)
(* own closing brace: the unit a scan emits is an object that opens at the *)
(* top level of the scanned text, outside every string literal, and ends   *)
(* at the brace that closes it, so no nested object is emitted on its own. *)
(* Fails after a stray '}': the depth goes below 0, the '{' of the next    *)
(* object brings it back to 0, and the object nested in it is emitted.     *)
(***************************************************************************)
C19_NoNestedEmission ==
    [][ScanFoundOne
        => IsTopLevelObject(PassText, Len(PassText) - Len(buffer') - Len(Last(units')) + 1,
                            Len(PassText) - Len(buffer'), Last(units'))]_vars

\* no closing brace outside a string brings the depth of a text back to 0
NeverBalances(t) ==
    \A j \in 1..Len(t) :
        ~(t[j] = RBRACE /\ RefNest(t, 1, j, 0, FALSE) = [depth |-> 1, inStr |-> FALSE])

\* a streamed body without newline whose braces never balance, and a callback
\* that returns
Unbalanced ==
    /\ hasBody /\ Normal
    /\ ~HasNewline(ResText(body))
    /\ NeverBalances(ResText(body))

(***************************************************************************)
(* C20: for a body that contains no newline and whose braces never balance *)
(* outside strings, under any chunking, the callback is not invoked before *)
(* the stream ends; at stream end exactly one event, decoded from the      *)
(* trimmed whole body, is emitted and returned (none, and the default      *)
(* returned, when the trimmed body is empty); the call is rejected only by *)
(* a failure of the transport.  Fails after a stray '}': the depth goes    *)
(* below 0, so a pair of braces inside an object that never closes         *)
(* brings it back to 0 and is emitted while the stream is read.            *)
(***************************************************************************)
C20_UnbalancedWaitsForEnd ==
    Unbalanced
        => /\ pc = "reading" => (delivered = <<>> /\ units = <<>>)
           /\ (pc = "resolved" /\ Trim(ResText(body)) # <<>>)
                => /\ units = <<Trim(ResText(body))>>
                   /\ delivered = <<EventOf(Trim(ResText(body)))>>
                   /\ result = EventOf(Trim(ResText(body)))
           /\ (pc = "resolved" /\ Trim(ResText(body)) = <<>>)
                => (delivered = <<>> /\ result = DefaultEvent)
           /\ pc = "rejected" => cause \in {"fetch", "read"}


(***************************************************************************)
(* A scanner that keeps its position: after a match it goes on with the    *)
(* character after it, in the same text, with the scan state as it is.     *)
(***************************************************************************)
\* the spans found from index i on and the index of the last match
KeepResult(spans, last) == [spans |-> spans, last |-> last]

\* a match at index i, before what the rest of the text gave
KeepMatch(span, i, later) ==
    KeepResult(<<span>> \o later.spans, IF later.last = 0 THEN i ELSE later.last)

RECURSIVE KeepScan(_, _, _, _, _, _)

KeepOn(t, i, n) ==
    IF n.match
    THEN KeepMatch(SubSeq(t, n.start, i), i,
                   KeepScan(t, i + 1, n.braceDepth, n.inString, n.escape, 0))
    ELSE KeepScan(t, i + 1, n.braceDepth, n.inString, n.escape, n.start)

KeepScan(t, i, braceDepth, inString, escape, start) ==
    IF i > Len(t) THEN KeepResult(<<>>, 0)
    ELSE KeepOn(t, i, ScanChar(t[i], i, braceDepth, inString, escape, start))

\* the spans of a text and what is left of it after the last of them
KeepSpans(t) == KeepScan(t, 1, 0, FALSE, FALSE, 0).spans
KeepRest(t) == SubSeq(t, KeepScan(t, 1, 0, FALSE, FALSE, 0).last + 1, Len(t))

\* the characters and the scan states of the scanner, up to a depth
ScanChars == {LBRACE, RBRACE, QUOTE, BSLASH, COLON, NL}
ScanDepths == (0 - 2)..2

\* a pass that went on reading: the units it emitted and the buffer it left
\* are the trimmed non-empty lines and then the spans of the position-keeping
\* scanner on what follows the last newline, and that scanner's rest
PassAsKeepScan(parts, new) ==
    /\ new = TrimNonEmpty(Front(parts)) \o KeepSpans(Last(parts))
    /\ buffer' = KeepRest(Last(parts))

(***************************************************************************)
(* C21: the scanner that restarts from index 0 of the sliced buffer with   *)
(* start reset after each brace match emits the same spans, in the same    *)
(* order, and leaves the same remaining buffer as a scanner that keeps its *)
(* position and goes on from the character after the match within one     *)
(* pass: the scan state after a match (depth 0, not in a string, no        *)
(* pending escape) is the fresh scan state.                                *)
(***************************************************************************)
C21_RestartEqualsKeep ==
    /\ [](\A ch \in ScanChars, depth \in ScanDepths, str \in BOOLEAN, esc \in BOOLEAN,
             st \in 0..1 :
            ScanChar(ch, 2, depth, str, esc, st).match
                => /\ ScanChar(ch, 2, depth, str, esc, st).braceDepth = 0
                   /\ ~ScanChar(ch, 2, depth, str, esc, st).inString
                   /\ ~ScanChar(ch, 2, depth, str, esc, st).escape)
    /\ [][(pc = "reading" /\ pc' = "reading" /\ thrownAt' = {})
            => \E parts \in {Split(PassText)}, new \in {NewUnits} :
                 PassAsKeepScan(parts, new)]_vars

\* one chunk held two objects, the first with a nested object and the
\* second with a brace in a string: two spans were found in one pass, the
\* second after a restart
C21_Witness ==
    /\ hasBody /\ Normal /\ pc = "reading"
    /\ body = ObjNested \o ObjBrace
    /\ wholeChunk /\ pos = Len(body)
    /\ units = <<ObjNested, ObjBrace>>
    /\ buffer = <<>>

\* the scan state after the character at index j of a text in which the scan
\* finds no match, 0 for the state the scan starts with
RECURSIVE ScanTo(_, _)

ScanNext(t, j, s) == ScanChar(t[j], j, s.braceDepth, s.inString, s.escape, s.start)

ScanTo(t, j) ==
    IF j = 0 THEN ScanState(0, FALSE, FALSE, 0, FALSE) ELSE ScanNext(t, j, ScanTo(t, j - 1))

(***************************************************************************)
(* C24: during every brace scan, for every buffer content (a stray '}'     *)
(* outside any object included), braceDepth is never negative: after a     *)
(* pass, at every index of the buffer the last scan went through, the      *)
(* depth was 0 or more.  Fails for a stray '}': braceDepth-- has no guard. *)
(***************************************************************************)
C24_DepthNeverNegative ==
    (hasBody /\ pc = "reading")
        => \A j \in 1..Len(buffer) : ScanTo(buffer, j).braceDepth >= 0

\* a step in which a pass ended and the loop went on
PassEnded == pc = "reading" /\ pc' = "reading"

\* the step after the last chunk: the stream ended, and the leftover was handled
StreamEnded ==
    /\ pc = "reading" /\ pc' \in {"resolved", "rejected"}
    /\ pos = Len(body) /\ pos' = pos
    /\ cause' # "read"

(***************************************************************************)
(* C25: at the end of every read pass the buffer contains no newline and   *)
(* is a suffix of the previous buffer followed by the decoded chunk;       *)
(* consequently, at stream end the leftover splits into at most one        *)
(* non-empty segment and leftover handling emits at most one unit, which   *)
(* a callback that returns receives as one event.                          *)
(***************************************************************************)
C25_NoNewlineLeft ==
    /\ [](pc = "reading" => ~HasNewline(buffer))
    /\ [][PassEnded => \E text \in {PassText} : IsSuffix(buffer', text)]_vars
    /\ [][StreamEnded
            => /\ Len(TrimNonEmpty(Split(Trim(buffer)))) <= 1
               /\ Len(units') <= Len(units) + 1
               /\ thrownAt' = {} => Len(delivered') <= Len(delivered) + 1]_vars

\* a line was taken by the newline loop in one pass, and what followed it,
\* no object, was emitted by the leftover handling at the end of the stream
C25_Witness ==
    /\ hasBody /\ Normal /\ pc = "resolved"
    /\ body = ObjPlain \o <<NL, QUOTE, "a", QUOTE>>
    /\ units = <<ObjPlain, <<QUOTE, "a", QUOTE>>>>
    /\ Len(delivered) = 2
    /\ buffer = <<QUOTE, "a", QUOTE>>

\* the characters of the units of a pass
RECURSIVE SumLen(_)
SumLen(us) == IF us = <<>> THEN 0 ELSE Len(Head(us)) + SumLen(Tail(us))

\* every unit a pass takes is taken out of the text of the pass
PassShortens(text, new) == Len(buffer') + SumLen(new) <= Len(text)

(***************************************************************************)
(* C23: for any finite sequence of chunks followed by stream end and a     *)
(* callback that returns normally, sendMessage eventually resolves; the    *)
(* newline loop and the brace scan of a pass terminate because every       *)
(* extraction shortens the buffer: the buffer a pass leaves and the units  *)
(* it took are together no longer than the text it started with.           *)
(***************************************************************************)
C23_EventuallyResolves ==
    /\ <>(pc = "resolved" \/ thrownAt # {})
    /\ [][PassEnded => \E text \in {PassText}, new \in {NewUnits} :
                          PassShortens(text, new)]_vars

\* two objects and their newlines came in several chunks and the call
\* resolved
C23_Witness ==
    /\ hasBody /\ Normal /\ pc = "resolved" /\ ~wholeChunk
    /\ body = ObjPlain \o <<NL>> \o ObjBrace \o <<NL>>
    /\ Len(delivered) = 2
    /\ buffer = <<>>
(***************************************************************************)
(* The form of the Chat component: handleSubmit.                           *)
(***************************************************************************)
\* what the textarea may hold when the form is submitted: nothing, blanks,
\* a word, a padded word
SubmitTexts == {<<>>, <<SP>>, <<NL, SP>>, <<"hi">>, <<SP, "a", NL>>}

\* const toAdd = { id: Date.now(), text: input, sender: user, time: Date.now() }
ToAdd(input, user, now, later) == [id |-> now, text |-> input, sender |-> user, time |-> later]

\* the Chat with or without the prop onSend (opc = "off": no onSend)
InitSubmit ==
    /\ InitAt({<<>>}, {Unscripted}, "idle")
    /\ hasBody
    /\ peer = NoPeer
    /\ stream = "undefined"
    /\ callback = FALSE
    /\ requested = "none"
    /\ handle = "chat"
    /\ opc \in {"off", "idle"}
    /\ assistantId = 0
    /\ outcome = "pending"
    /\ ui = <<>>
    /\ \E ims \in InitialMessages : messages = SetAll(<<Welcome>>, ims)

\* handleSubmit: addMessage(toAdd); setInput(''); if (toAdd && onSend) onSend(toAdd).
\* toAdd is an object, so the test is the test of onSend alone.
HandleSubmit ==
    /\ Len(ui) < MaxCalls
    /\ \E input \in SubmitTexts, user \in {"user", "assistant"}, now \in Times, later \in Times :
         /\ now <= later
         /\ messages' = AddMessage(messages, ToAdd(input, user, now, later))
         /\ ui' = ui \o <<HandleCall("addMessage", now, input, FALSE)>>
                     \o (IF opc # "off" THEN <<HandleCall("onSend", now, input, FALSE)>>
                         ELSE <<>>)
    /\ UNCHANGED <<call, pc, outer>>

NextSubmit == HandleSubmit

SpecSubmit == InitSubmit /\ [][NextSubmit]_vars

\* the calls a step made, and the text of the form it submitted
NewCalls == SubSeq(ui', Len(ui) + 1, Len(ui'))
Submitted(input) ==
    /\ Len(ui') > Len(ui)
    /\ NewCalls[1] = HandleCall("addMessage", NewCalls[1].id, input, FALSE)
SendInvoked == \E k \in 1..Len(NewCalls) : NewCalls[k].op = "onSend"

(***************************************************************************)
(* C26: in a Chat that was given onSend, a form submission invokes onSend  *)
(* if and only if the submitted text is non-empty after trimming; a        *)
(* submission of an empty or whitespace-only text changes no message and   *)
(* invokes no onSend.                                                      *)
(***************************************************************************)
C26_SendIffNonEmpty ==
    [][\A input \in SubmitTexts :
         (opc # "off" /\ Submitted(input)) =>
             /\ SendInvoked <=> Trim(input) # <<>>
             /\ Trim(input) = <<>> => (messages' = messages /\ ~SendInvoked)]_vars
(***************************************************************************)
(* Two calls of sendMessage in flight on one ChatApi.  The closure of      *)
(* ChatApiFactory holds baseUrl alone; reader, decoder, buffer, lastEvent, *)
(* done and the scan variables are declared inside sendMessage, so each    *)
(* call has its own.  The first call is the one of the variables above,    *)
(* the second is peer.                                                     *)
(***************************************************************************)
\* the bodies of the two responses, and the places their transports cut them
TwoBodies == {ObjPlain \o ObjBrace, ObjThink \o <<NL>> \o ObjNested, ObjEmpty \o <<NL>>}
TwoCuts(b) == {{}, {3}, {Len(b) \div 2}}

InitTwo ==
    /\ \E b \in TwoBodies : InitWith({b}, TwoCuts(b))
    /\ CallWith({"true"}, {TRUE})
    /\ handle = "none"
    /\ opc = "off"
    /\ assistantId = 0
    /\ outcome = "pending"
    /\ ui = <<>>
    /\ messages = <<>>
    /\ \E b \in TwoBodies : \E c \in TwoCuts(b) : peer = PeerAt("start", b, c)

\* PeerDecodeState as the decode state of a call whose buffer is the one
\* variable of the ChatApi, shared with the other call
PeerDecodeStateM(text) ==
    [buffer |-> buffer \o text, lastEvent |-> peer.lastEvent, delivered |-> peer.delivered,
     units |-> peer.units, thrownAt |-> {}, plan |-> {}, thrown |-> FALSE, callback |-> TRUE]

\* the decode state of the second call after buffer += text: its own
\* let buffer, let lastEvent, and its own callback
PeerDecodeState(text) ==
    [buffer |-> peer.buffer \o text, lastEvent |-> peer.lastEvent, delivered |-> peer.delivered,
     units |-> peer.units, thrownAt |-> {}, plan |-> {}, thrown |-> FALSE, callback |-> TRUE]

\* what a step of the second call that ran emitJson leaves in its locals
PeerCommit(d, next) ==
    [peer EXCEPT !.buffer = d.buffer, !.lastEvent = d.lastEvent, !.delivered = d.delivered,
                 !.units = d.units, !.pc = next]

\* const res = await fetch(...) of the second call
PeerFetch ==
    /\ peer.pc = "start"
    /\ peer' = [peer EXCEPT !.pc = "response"]
    /\ UNCHANGED <<call, pc, chat>>
    /\ UNCHANGED <<stream, callback, handle, opc, assistantId, outcome>>

\* const reader = res.body.getReader() of the second call
PeerGetReader ==
    /\ peer.pc = "response"
    /\ peer' = [peer EXCEPT !.pc = "reading"]
    /\ UNCHANGED <<call, pc, chat>>
    /\ UNCHANGED <<stream, callback, handle, opc, assistantId, outcome>>

\* where the chunk that the second call reads next ends
PeerChunkEnd ==
    CHOOSE e \in peer.cuts \cup {Len(peer.body)} :
        e > peer.pos /\ \A f \in peer.cuts \cup {Len(peer.body)} : f > peer.pos => e <= f

\* reader.read() of the second call resolves with a chunk: one pass of its
\* loop (between: the chunk came between two chunks of the first call)
PeerReadChunk ==
    /\ peer.pc = "reading" /\ peer.pos < Len(peer.body)
    /\ \E dec \in {DecodeStream(peer.pending, SubSeq(peer.body, peer.pos + 1, PeerChunkEnd))} :
       \E d \in {ReadPass(PeerDecodeState(dec.text))} :
         peer' = [PeerCommit(d, "reading") EXCEPT
                     !.pending = dec.pend,
                     !.pos = PeerChunkEnd,
                     !.between = @ \/ (pc = "reading" /\ 0 < pos /\ pos < Len(body))]
    /\ UNCHANGED <<call, pc, chat>>
    /\ UNCHANGED <<stream, callback, handle, opc, assistantId, outcome>>

\* reader.read() of the second call resolves with done: the last pass, the
\* leftover, return lastEvent
PeerReadEnd ==
    /\ peer.pc = "reading" /\ peer.pos = Len(peer.body)
    /\ \E d \in {Leftover(ReadPass(PeerDecodeState(<<>>)))} :
         peer' = [PeerCommit(d, "resolved") EXCEPT !.result = d.lastEvent]
    /\ UNCHANGED <<call, pc, chat>>
    /\ UNCHANGED <<stream, callback, handle, opc, assistantId, outcome>>

NextTwo ==
    \/ Fetch \/ NoBody \/ GetReader \/ ReadChunk \/ ReadEnd
    \/ PeerFetch \/ PeerGetReader \/ PeerReadChunk \/ PeerReadEnd

SpecTwo == InitTwo /\ [][NextTwo]_vars

(***************************************************************************)
(* C22: with two calls in flight on the same ChatApi and their chunks      *)
(* arriving in any order, each call that resolves has delivered to its     *)
(* callback the events, and returned the value, that it produces alone     *)
(* from its own response; a step of one call leaves the buffer, the        *)
(* lastEvent and every other local of the other call as they were.         *)
(***************************************************************************)
C22_CallsIndependent ==
    /\ []((pc = "resolved" /\ Normal)
            => \E alone \in {Decoded(body, cuts, hasBody, TRUE)} :
                  delivered = alone.delivered /\ result = alone.lastEvent)
    /\ [](peer.pc = "resolved"
            => \E alone \in {Decoded(peer.body, peer.cuts, TRUE, TRUE)} :
                  peer.delivered = alone.delivered /\ peer.result = alone.lastEvent)
    /\ [][peer' # peer => UNCHANGED <<call, pc>>]_vars
    /\ [][<<call, pc>>' # <<call, pc>> => peer' = peer]_vars

\* both calls resolved with events of their own, each after two chunks, and a
\* chunk of the second arrived between the two chunks of the first
C22_Witness ==
    /\ pc = "resolved" /\ Normal /\ peer.pc = "resolved"
    /\ hasBody /\ cuts # {} /\ peer.cuts # {} /\ peer.between
    /\ body = ObjPlain \o ObjBrace /\ peer.body = ObjThink \o <<NL>> \o ObjNested
    /\ Len(delivered) = 2 /\ Len(peer.delivered) = 2
    /\ delivered # peer.delivered
=============================================================================
